---- MODULE Spec2Model ----
(***************************************************************************)
(* A model of the coin-select library: the selection state object          *)
(* (CoinSelector), its weight / fee / excess arithmetic, the change        *)
(* (drain) computation, the LowestFee metric and the branch-and-bound      *)
(* driver (BnbIter).                                                       *)
(*                                                                         *)
(* Conventions.                                                            *)
(*  - Candidate indices are 0..N-1 as in the source; `candidates` is a     *)
(*    function on 0..N-1.                                                  *)
(*  - A FeeRate is kept as an integer number of quarter satoshis per       *)
(*    weight unit (FeeRate r stands for r/4 sat/wu, i.e. r sat/vb), the    *)
(*    grid on which FeeRate::from_sat_per_vb lands for whole sat/vb.       *)
(*    ceil(weight * spwu) is then (weight*r + 3) \div 4, computed exactly. *)
(*  - f32 scores (Ordf32) are kept as exact rationals <<n, d>>, d > 0, in  *)
(*    lowest terms.  The values of the selector and search runs are far    *)
(*    below 2^24, where the f32 conversions and products of the source are *)
(*    exact; the fee of a weight rounds as f32 does (f32_of).              *)
(*  - Option<T> is <<>> (None) or <<x>> (Some(x)).                         *)
(***************************************************************************)
EXTENDS Integers, Sequences, FiniteSets, TLC

VARIABLES
    candidates,         \* CoinSelector.candidates: the candidate slice
    selected,           \* CoinSelector.selected
    banned,             \* CoinSelector.banned
    candidate_order,    \* CoinSelector.candidate_order
    target,             \* the Target handed to the target-taking methods
    change_policy,      \* the ChangePolicy handed to drain / metrics
    long_term_feerate,  \* LowestFee.long_term_feerate
    metric,             \* which BnbMetric drives the search
    op,                 \* the last selector operation performed, with its input
    ret,                \* what that operation returned
    iter,               \* the BnbIter: <<>> before bnb_solutions, else <<[queue, best]>>
    out,                \* what the last BnbIter::next returned
    hist                \* bookkeeping of the current search (rounds, scores, popped branch)

vars == <<candidates, selected, banned, candidate_order, target, change_policy,
          long_term_feerate, metric, op, ret, iter, out, hist>>

----------------------------------------------------------------------------
(* Bounds of the model *)

MaxN == 2           \* longest candidate slice of the selector runs
MaxBnbN == 3        \* longest candidate slice of the searches
MaxRounds == 3      \* largest max_rounds handed to run_bnb
MaxAnyScore == 1    \* the arbitrary metric answers with scores 0..MaxAnyScore

----------------------------------------------------------------------------
(* Generic helpers *)

None == <<>>
Some(x) == <<x>>
IsSome(o) == o # <<>>
Unwrap(o) == o[1]

Min2(a, b) == IF a <= b THEN a ELSE b
Max2(a, b) == IF a >= b THEN a ELSE b
Abs(a) == IF a < 0 THEN -a ELSE a

RECURSIVE GCD(_, _)
GCD(a, b) == IF b = 0 THEN a ELSE GCD(b, a % b)

\* exact rationals standing for the f32 values of the source
Rat(n, d) ==
    LET s == IF d < 0 THEN -1 ELSE 1
        g == GCD(Abs(n), Abs(d))
    IN  <<(s * n) \div g, (s * d) \div g>>
RInt(n) == <<n, 1>>
RAdd(a, b) == Rat(a[1] * b[2] + b[1] * a[2], a[2] * b[2])
RSub(a, b) == Rat(a[1] * b[2] - b[1] * a[2], a[2] * b[2])
RMul(a, b) == Rat(a[1] * b[1], a[2] * b[2])
RDiv(a, b) == Rat(a[1] * b[2], a[2] * b[1])
RLt(a, b) == a[1] * b[2] < b[1] * a[2]
RLe(a, b) == a[1] * b[2] <= b[1] * a[2]
RMax(a, b) == IF RLt(a, b) THEN b ELSE a

RECURSIVE SetSum(_, _)
SetSum(S, f) ==
    IF S = {} THEN 0
    ELSE LET x == CHOOSE y \in S : TRUE IN f[x] + SetSum(S \ {x}, f)

\* the elements of a set of integers in ascending order (BTreeSet iteration)
RECURSIVE Ascending(_)
Ascending(S) ==
    IF S = {} THEN <<>>
    ELSE LET m == CHOOSE x \in S : \A y \in S : x <= y
         IN  <<m>> \o Ascending(S \ {m})

SeqToSet(s) == {s[k] : k \in DOMAIN s}

\* the subsequence of s made of the elements that satisfy membership in S
RECURSIVE FilterIn(_, _)
FilterIn(s, S) ==
    IF s = <<>> THEN <<>>
    ELSE (IF Head(s) \in S THEN <<Head(s)>> ELSE <<>>) \o FilterIn(Tail(s), S)

----------------------------------------------------------------------------
(* lib.rs *)

TX_FIXED_FIELD_WEIGHT == 32

varint_size(v) ==
    IF v <= 252 THEN 1
    ELSE IF v <= 65535 THEN 3
    ELSE IF v \div 65536 <= 65535 THEN 5   \* v <= 0xffff_ffff
    ELSE 9

----------------------------------------------------------------------------
(* feerate.rs, target.rs, drain.rs *)

\* the unit in the last place of the f32 nearest to the integer n >= 0
RECURSIVE f32_ulp(_)
f32_ulp(n) == IF n < 16777216 THEN 1 ELSE 2 * f32_ulp(n \div 2)

\* `n as f32` for an integer n >= 0: the nearest value with a 24-bit
\* significand, ties to even
f32_nearest(q, rem, u) ==
    IF 2 * rem < u THEN q * u
    ELSE IF 2 * rem > u THEN (q + 1) * u
    ELSE (q + (q % 2)) * u

f32_round(n, u) == f32_nearest(n \div u, n % u, u)

f32_of(n) == f32_round(n, f32_ulp(n))

\* ceil(weight as f32 * feerate.spwu()) as u64; the f32 product of
\* f32_of(weight) and feerate/4 is f32_of(f32_of(weight) * feerate) / 4
implied_fee_wu(feerate, tx_weight) == (f32_of(f32_of(tx_weight) * feerate) + 3) \div 4

\* Replace::min_fee_to_do_replacement
min_fee_to_do_replacement(replace, replacing_tx_weight) ==
    replace.fee + implied_fee_wu(replace.incremental_relay_feerate, replacing_tx_weight)

\* TargetOutputs::output_weight_with_drain
output_weight_with_drain(outputs, drain_weight) ==
    varint_size(drain_weight.n_outputs + outputs.n_outputs) * 4
        + drain_weight.output_weight + outputs.weight_sum

target_value(t) == t.outputs.value_sum

DrainWeightsNONE == [output_weight |-> 0, spend_weight |-> 0, n_outputs |-> 0]
DrainNONE == [weights |-> DrainWeightsNONE, value |-> 0]
MkDrain(w, v) == [weights |-> w, value |-> v]

\* DrainWeights::waste, an f32
drain_waste(w, feerate, lt_feerate, n_target_outputs) ==
    LET extra_varint_weight ==
            (varint_size(n_target_outputs + w.n_outputs) - varint_size(n_target_outputs)) * 4
        extra_output_weight == w.output_weight + extra_varint_weight
    IN  Rat(extra_output_weight * feerate + w.spend_weight * lt_feerate, 4)

\* DrainWeights::spend_fee
spend_fee(w, lt_feerate) == (w.spend_weight * lt_feerate + 3) \div 4

----------------------------------------------------------------------------
(* coin_selector.rs: Candidate *)

\* Candidate::effective_value, an f32
cand_effective_value(c, feerate) == Rat(4 * c.value - c.weight * feerate, 4)

\* Candidate::value_pwu, an f32
value_pwu(c) == Rat(c.value, c.weight)

----------------------------------------------------------------------------
(* coin_selector.rs: CoinSelector, read-only methods.  A selector value is  *)
(* the record [selected, banned, candidate_order]; the candidate slice is  *)
(* shared by every selector of a run.                                      *)

N == Cardinality(DOMAIN candidates)

Self == [selected |-> selected, banned |-> banned, candidate_order |-> candidate_order]

\* CoinSelector::new
new_selector ==
    [selected |-> {}, banned |-> {}, candidate_order |-> [k \in 1..N |-> k - 1]]

\* CoinSelector::candidates : the index sequence the iterator yields
candidates_iter(cs) == cs.candidate_order

selected_iter_in_candidate_order(cs) == FilterIn(cs.candidate_order, cs.selected)

\* CoinSelector::selected : iterates the BTreeSet
selected_iter(cs) == Ascending(cs.selected)

unselected_indices_with_banned(cs) ==
    FilterIn(cs.candidate_order, SeqToSet(cs.candidate_order) \ cs.selected)

\* CoinSelector::unselected_indices / unselected
unselected_indices(cs) ==
    FilterIn(cs.candidate_order, SeqToSet(cs.candidate_order) \ (cs.selected \cup cs.banned))

is_exhausted(cs) == unselected_indices(cs) = <<>>

selected_value(cs) == SetSum(cs.selected, [i \in cs.selected |-> candidates[i].value])

\* input_weight without the witness length byte of the non-segwit inputs
input_weight_no_witness_length(cs) ==
    LET is_segwit_tx == \E i \in cs.selected : candidates[i].is_segwit
        witness_header_extra_weight == IF is_segwit_tx THEN 2 ELSE 0
        input_count == SetSum(cs.selected, [i \in cs.selected |-> candidates[i].input_count])
        input_varint_weight == varint_size(input_count) * 4
        selected_weight ==
            SetSum(cs.selected, [i \in cs.selected |-> candidates[i].weight])
    IN  input_varint_weight + selected_weight + witness_header_extra_weight

\* input_weight with the witness header charged to the transactions that
\* have no segwit input
input_weight_header_on_legacy(cs) ==
    LET is_segwit_tx == \E i \in cs.selected : candidates[i].is_segwit
        witness_header_extra_weight == IF is_segwit_tx THEN 0 ELSE 2
        input_count == SetSum(cs.selected, [i \in cs.selected |-> candidates[i].input_count])
        input_varint_weight == varint_size(input_count) * 4
        selected_weight ==
            SetSum(cs.selected,
                   [i \in cs.selected |->
                       candidates[i].weight
                         + (IF is_segwit_tx /\ ~candidates[i].is_segwit THEN 1 ELSE 0)])
    IN  input_varint_weight + selected_weight + witness_header_extra_weight

input_weight(cs) ==
    LET is_segwit_tx == \E i \in cs.selected : candidates[i].is_segwit
        witness_header_extra_weight == IF is_segwit_tx THEN 2 ELSE 0
        input_count == SetSum(cs.selected, [i \in cs.selected |-> candidates[i].input_count])
        input_varint_weight == varint_size(input_count) * 4
        selected_weight ==
            SetSum(cs.selected,
                   [i \in cs.selected |->
                       candidates[i].weight
                         + (IF is_segwit_tx /\ ~candidates[i].is_segwit THEN 1 ELSE 0)])
    IN  input_varint_weight + selected_weight + witness_header_extra_weight

weight(cs, target_outputs, drain_weight) ==
    TX_FIXED_FIELD_WEIGHT + input_weight(cs)
        + output_weight_with_drain(target_outputs, drain_weight)

implied_fee_from_feerate(cs, t, drain_weights) ==
    implied_fee_wu(t.fee.rate, weight(cs, t.outputs, drain_weights))

implied_fee_smaller(cs, t, drain_weights) ==
    IF IsSome(t.fee.replace)
    THEN Min2(implied_fee_from_feerate(cs, t, drain_weights),
              min_fee_to_do_replacement(Unwrap(t.fee.replace),
                                        weight(cs, t.outputs, drain_weights)))
    ELSE implied_fee_from_feerate(cs, t, drain_weights)

implied_fee(cs, t, drain_weights) ==
    IF IsSome(t.fee.replace)
    THEN Max2(implied_fee_from_feerate(cs, t, drain_weights),
              min_fee_to_do_replacement(Unwrap(t.fee.replace),
                                        weight(cs, t.outputs, drain_weights)))
    ELSE implied_fee_from_feerate(cs, t, drain_weights)

fee(cs, tv, drain_value) == selected_value(cs) - tv - drain_value

rate_excess(cs, t, drain) ==
    selected_value(cs) - target_value(t) - drain.value
        - implied_fee_from_feerate(cs, t, drain.weights)

replacement_excess(cs, t, drain) ==
    LET replacement_excess_needed ==
            IF IsSome(t.fee.replace)
            THEN min_fee_to_do_replacement(Unwrap(t.fee.replace),
                                           weight(cs, t.outputs, drain.weights))
            ELSE 0
    IN  selected_value(cs) - target_value(t) - drain.value - replacement_excess_needed

excess(cs, t, drain) == Min2(rate_excess(cs, t, drain), replacement_excess(cs, t, drain))

missing(cs, t) ==
    LET e == excess(cs, t, DrainNONE) IN IF e < 0 THEN Abs(e) ELSE 0

is_target_met_with_drain(cs, t, drain) == excess(cs, t, drain) >= 0

is_target_met(cs, t) == is_target_met_with_drain(cs, t, DrainNONE)

drain_value_at_threshold(cs, t, policy) ==
    LET e == excess(cs, t, MkDrain(policy.drain_weights, 0))
    IN  IF e >= policy.min_value THEN Some(e) ELSE None

drain_value_ignoring_weights(cs, t, policy) ==
    LET e == excess(cs, t, DrainNONE)
    IN  IF e > policy.min_value THEN Some(e) ELSE None

\* CoinSelector::drain_value (the Option it returns)
drain_value(cs, t, policy) ==
    LET e == excess(cs, t, MkDrain(policy.drain_weights, 0))
    IN  IF e > policy.min_value THEN Some(e) ELSE None

\* the debug_assert_eq! inside drain_value
drain_value_assertion(cs, t, policy) ==
    LET dv == drain_value(cs, t, policy)
    IN  IsSome(dv) =>
           (is_target_met(cs, t)
              = is_target_met_with_drain(cs, t, MkDrain(policy.drain_weights, Unwrap(dv))))

drain(cs, t, policy) ==
    LET dv == drain_value(cs, t, policy)
    IN  IF IsSome(dv) THEN MkDrain(policy.drain_weights, Unwrap(dv)) ELSE DrainNONE

----------------------------------------------------------------------------
(* coin_selector.rs: CoinSelector, mutating methods, as functions from the  *)
(* selector before the call to the selector after it.                      *)

\* CoinSelector::select; the assert!(index < len) is the caller's guard
select(cs, index) == [cs EXCEPT !.selected = @ \cup {index}]

deselect(cs, index) == [cs EXCEPT !.selected = @ \ {index}]

ban(cs, index) == [cs EXCEPT !.banned = @ \cup {index}]

select_next(cs) ==
    LET u == unselected_indices(cs)
    IN  IF u # <<>> THEN select(cs, Head(u)) ELSE cs

RECURSIVE select_all(_)
select_all(cs) ==
    IF unselected_indices(cs) = <<>> THEN cs ELSE select_all(select_next(cs))

\* the loop of select_all_effective over candidate_order, from position k on
RECURSIVE select_all_effective_from(_, _, _)
select_all_effective_from(cs, feerate, k) ==
    IF k > Len(cs.candidate_order) THEN cs
    ELSE LET cand_index == cs.candidate_order[k]
             skip == \/ cand_index \in cs.selected
                     \/ cand_index \in cs.banned
                     \/ RLe(cand_effective_value(candidates[cand_index], feerate), RInt(0))
         IN  select_all_effective_from(
                 IF skip THEN cs ELSE [cs EXCEPT !.selected = @ \cup {cand_index}],
                 feerate, k + 1)

select_all_effective(cs, feerate) == select_all_effective_from(cs, feerate, 1)

is_selection_possible(cs, t) == is_target_met(select_all_effective(cs, t.fee.rate), t)

\* The predicates handed to select_until: the closure of
\* select_until_target_met, and closures on the size of the selection.
Predicates == {[kind |-> "target_met", n |-> 0]} \cup {[kind |-> "n_selected", n |-> n] : n \in 1..(MaxN + 1)}

PredicateHolds(pred, cs) ==
    IF pred.kind = "target_met" THEN is_target_met(cs, target)
    ELSE Cardinality(cs.selected) >= pred.n

\* CoinSelector::select_until: <<selector after the call, whether it returned Some(())>>
RECURSIVE select_until(_, _)
select_until(cs, pred) ==
    IF PredicateHolds(pred, cs) THEN <<cs, TRUE>>
    ELSE IF unselected_indices(cs) = <<>> THEN <<cs, FALSE>>
    ELSE select_until(select_next(cs), pred)

select_until_target_met_one_more(cs, t) ==
    LET r == select_until(cs, [kind |-> "target_met", n |-> 0])
    IN  <<select_next(r[1]), r[2], IF r[2] THEN 0 ELSE Abs(excess(r[1], t, DrainNONE))>>

\* CoinSelector::select_until_target_met: <<selector after, Ok(()) as TRUE, missing>>
select_until_target_met(cs, t) ==
    LET r == select_until(cs, [kind |-> "target_met", n |-> 0])
    IN  <<r[1], r[2], IF r[2] THEN 0 ELSE Abs(excess(r[1], t, DrainNONE))>>

\* The comparison closures handed to sort_candidates_by, each as the set of
\* pairs <<a, b>> of candidate indices with cmp(a, b) = Less.
Comparators == {"desc_value_pwu", "desc_value", "desc_index", "asc_weight"}

CmpLess(cmp, a, b) ==
    LET ca == candidates[a]
        cb == candidates[b]
    IN  CASE cmp = "desc_value_pwu" ->
               \* Reverse((Ordf32(value_pwu), value))
               \/ RLt(value_pwu(cb), value_pwu(ca))
               \/ (value_pwu(ca) = value_pwu(cb) /\ cb.value < ca.value)
          [] cmp = "desc_value" -> cb.value < ca.value
          [] cmp = "desc_index" -> b < a
          [] OTHER -> ca.weight < cb.weight

\* slice::sort_by is stable: x goes behind every element it is not Less than
RECURSIVE InsertSorted(_, _, _)
InsertSorted(s, x, cmp) ==
    IF s = <<>> THEN <<x>>
    ELSE IF CmpLess(cmp, x, Head(s)) THEN <<x>> \o s
    ELSE <<Head(s)>> \o InsertSorted(Tail(s), x, cmp)

RECURSIVE StableSort(_, _, _)
StableSort(acc, rest, cmp) ==
    IF rest = <<>> THEN acc
    ELSE StableSort(InsertSorted(acc, Head(rest), cmp), Tail(rest), cmp)

sort_candidates_by_first_only(cs, cmp) ==
    [cs EXCEPT !.candidate_order = [k \in DOMAIN cs.candidate_order |-> cs.candidate_order[1]]]

sort_candidates_by(cs, cmp) ==
    [cs EXCEPT !.candidate_order = StableSort(<<>>, cs.candidate_order, cmp)]

sort_candidates_by_key(cs, key) == sort_candidates_by(cs, key)

sort_candidates_by_descending_value_pwu(cs) == sort_candidates_by_key(cs, "desc_value_pwu")

\* SelectIter::next driven by Iterator::find(|cs| cs.is_target_met(target)):
\* Some(<<selector, index>>) for the first prefix that meets the target
RECURSIVE select_iter_find(_, _)
select_iter_find(cs, t) ==
    LET u == unselected_indices(cs)
    IN  IF u = <<>> THEN None
        ELSE LET nxt == select(cs, Head(u))
             IN  IF is_target_met(nxt, t) THEN Some(<<nxt, Head(u)>>)
                 ELSE select_iter_find(nxt, t)

----------------------------------------------------------------------------
(* metrics/lowest_fee.rs: LowestFee {target, long_term_feerate,             *)
(* change_policy}, the three fields being the variables of those names.    *)

\* the assert!(fee_for_the_tx > 0) inside LowestFee::score
LowestFee_score_assertion(cs) ==
    is_target_met(cs, target) =>
        fee(cs, target_value(target), drain(cs, target, change_policy).value) > 0

LowestFee_score(cs) ==
    IF ~is_target_met(cs, target) THEN None
    ELSE LET d == drain(cs, target, change_policy)
             fee_for_the_tx == fee(cs, target_value(target), d.value)
             fee_for_spending_drain == spend_fee(d.weights, long_term_feerate)
         IN  Some(RInt(fee_for_the_tx + fee_for_spending_drain))

\* LowestFee::bound, the branch taken when the target is already met
LowestFee_bound_met(cs) ==
    LET current_score == Unwrap(LowestFee_score(cs))
        dv == drain_value(cs, target, change_policy)
        u == unselected_indices(cs)
        cost_of_change ==
            drain_waste(change_policy.drain_weights, target.fee.rate,
                        long_term_feerate, target.outputs.n_outputs)
    IN  IF IsSome(dv)
        THEN LET amount_above_change_threshold == Unwrap(dv) - change_policy.min_value
             IN  IF u = <<>> THEN Some(current_score)
                 ELSE LET low == candidates[u[Len(u)]]
                          ev == cand_effective_value(low, target.fee.rate)
                      IN  IF RLt(ev, RInt(0))
                          THEN LET value_per_negative_effective_value ==
                                       RDiv(RInt(low.value), RSub(RInt(0), ev))
                                   extra_value_needed_to_get_rid_of_change ==
                                       RMul(RInt(amount_above_change_threshold),
                                            value_per_negative_effective_value)
                                   cost_of_getting_rid_of_change ==
                                       RAdd(extra_value_needed_to_get_rid_of_change,
                                            RInt(Unwrap(dv)))
                                   best_score_without_change ==
                                       RSub(RAdd(current_score, cost_of_getting_rid_of_change),
                                            cost_of_change)
                               IN  IF RLt(best_score_without_change, current_score)
                                   THEN Some(best_score_without_change)
                                   ELSE Some(current_score)
                          ELSE Some(current_score)
        ELSE LET cost_of_no_change == excess(cs, target, DrainNONE)
                 best_score_with_change ==
                     RAdd(RSub(current_score, RInt(cost_of_no_change)), cost_of_change)
             IN  IF RLt(best_score_with_change, current_score)
                 THEN Some(best_score_with_change)
                 ELSE Some(current_score)

\* LowestFee::bound, the branch taken when the target is not met yet
LowestFee_bound_unmet(cs) ==
    LET found == select_iter_find(cs, target)
    IN  IF found = None THEN None
        ELSE
        LET resize_index == Unwrap(found)[2]
            to_resize == candidates[resize_index]
            cs2 == deselect(Unwrap(found)[1], resize_index)
            rate_exc == rate_excess(cs2, target, DrainNONE)
            ev_rate == cand_effective_value(to_resize, target.fee.rate)
            \* Some(scale) after the feerate step, None where the code returns None
            scale1 ==
                IF rate_exc < 0
                THEN IF RLt(RInt(0), ev_rate)
                     THEN Some(RMax(RInt(0), RDiv(RInt(Abs(rate_exc)), ev_rate)))
                     ELSE None
                ELSE Some(RInt(0))
            replace_exc == replacement_excess(cs2, target, DrainNONE)
            scale2 ==
                IF scale1 = None THEN None
                ELSE IF IsSome(target.fee.replace) /\ replace_exc < 0
                THEN LET ev_rep == cand_effective_value(
                                       to_resize,
                                       Unwrap(target.fee.replace).incremental_relay_feerate)
                     IN  IF RLt(RInt(0), ev_rep)
                         THEN Some(RMax(Unwrap(scale1), RDiv(RInt(Abs(replace_exc)), ev_rep)))
                         ELSE None
                ELSE scale1
        IN  IF scale2 = None THEN None
            ELSE Some(RSub(RAdd(RMul(Unwrap(scale2), RInt(to_resize.value)),
                                RInt(selected_value(cs2))),
                           RInt(target_value(target))))

LowestFee_bound(cs) ==
    IF is_target_met(cs, target) THEN LowestFee_bound_met(cs) ELSE LowestFee_bound_unmet(cs)

----------------------------------------------------------------------------
(* tests/bnb.rs: MinExcessThenWeight {target} *)

EXCESS_RATIO == 1000000

MinExcessThenWeight_score(cs) ==
    LET e == excess(cs, target, DrainNONE)
    IN  IF e < 0 THEN None ELSE Some(RInt(e * EXCESS_RATIO + input_weight(cs)))

MinExcessThenWeight_bound(cs) ==
    LET r == select_until_target_met(cs, target)
    IN  IF r[2] THEN Some(RInt(input_weight(r[1]))) ELSE None

----------------------------------------------------------------------------
(* bnb.rs: the BnbMetric trait.  "LowestFee" and "MinExcessThenWeight" are  *)
(* the implementations above; "Any" stands for an arbitrary implementation *)
(* (score and bound take &mut self, so successive answers need not be      *)
(* related): each of its answers is any Option of a score 0..MaxAnyScore.  *)

Metrics == {"LowestFee", "MinExcessThenWeight", "Any"}

AnyAnswers == {None} \cup {Some(RInt(k)) : k \in 0..MaxAnyScore}

metric_score(m, cs) ==
    IF m = "LowestFee" THEN LowestFee_score(cs) ELSE MinExcessThenWeight_score(cs)

metric_bound(m, cs) ==
    IF m = "LowestFee" THEN LowestFee_bound(cs) ELSE MinExcessThenWeight_bound(cs)

\* the answers metric.score(cs) / metric.bound(cs) can give
score_answers(m, cs) == IF m = "Any" THEN AnyAnswers ELSE {metric_score(m, cs)}
bound_answers(m, cs) == IF m = "Any" THEN AnyAnswers ELSE {metric_bound(m, cs)}

requires_ordering_by_descending_value_pwu(m) == m = "LowestFee"

----------------------------------------------------------------------------
(* bnb.rs: BnbIter.  The iterator is the record [queue, best]; a Branch is  *)
(* [lower_bound, selector, is_exclusion].  The BinaryHeap is kept as the   *)
(* set of its branches; pop takes a greatest branch under Branch::cmp.     *)

MkBranch(lb, cs, is_exclusion) ==
    [lower_bound |-> lb, selector |-> cs, is_exclusion |-> is_exclusion]

\* Branch::cmp with the tie between equal bounds broken towards exclusion
BranchGreater_exclusion_first(a, b) ==
    \/ RLt(a.lower_bound, b.lower_bound)
    \/ (a.lower_bound = b.lower_bound /\ a.is_exclusion /\ ~b.is_exclusion)

\* Branch::cmp(a, b) = Greater: a leaves the heap before b
BranchGreater(a, b) ==
    \/ RLt(a.lower_bound, b.lower_bound)
    \/ (a.lower_bound = b.lower_bound /\ ~a.is_exclusion /\ b.is_exclusion)

\* a pop that may return any branch of the heap
pop_candidates_any(queue) == queue

\* the branches BinaryHeap::pop may return
pop_candidates(queue) == {b \in queue : \A c \in queue : ~BranchGreater(c, b)}

\* consider_adding_to_queue without the comparison against the best
consider_adding_to_queue_any_bound(it, cs, is_exclusion, bound) ==
    IF IsSome(bound)
    THEN [it EXCEPT !.queue = @ \cup {MkBranch(Unwrap(bound), cs, is_exclusion)}]
    ELSE it

\* BnbIter::consider_adding_to_queue, `bound` being metric.bound(cs)
consider_adding_to_queue(it, cs, is_exclusion, bound) ==
    IF IsSome(bound) /\ (it.best = None \/ RLt(Unwrap(bound), Unwrap(it.best)))
    THEN [it EXCEPT !.queue = @ \cup {MkBranch(Unwrap(bound), cs, is_exclusion)}]
    ELSE it

\* the ban loop stopping after the pivot
ban_pivot_only(exclusion_cs, u, to_ban) ==
    IF u = <<>> THEN exclusion_cs ELSE ban(exclusion_cs, Head(u))

\* the ban loop of insert_new_branches: ban along cs.unselected() while the
\* candidate has the pivot's (value, weight)
RECURSIVE ban_same(_, _, _)
ban_same(exclusion_cs, u, to_ban) ==
    IF u = <<>> THEN exclusion_cs
    ELSE IF <<candidates[Head(u)].value, candidates[Head(u)].weight>> # to_ban
         THEN exclusion_cs
         ELSE ban_same(ban(exclusion_cs, Head(u)), Tail(u), to_ban)

has_children(cs) == unselected_indices(cs) # <<>>

inclusion_child(cs) == select(cs, Head(unselected_indices(cs)))

\* an exclusion child that bans nothing
exclusion_child_without_ban(cs) == cs

exclusion_child(cs) ==
    LET u == unselected_indices(cs)
        nxt == candidates[Head(u)]
    IN  ban_same(cs, u, <<nxt.value, nxt.weight>>)

\* insert_new_branches without the inclusion branch
insert_new_branches_exclusion_only(it, cs, bound_inc, bound_exc) ==
    IF ~has_children(cs) THEN it
    ELSE consider_adding_to_queue(it, exclusion_child(cs), TRUE, bound_exc)

\* BnbIter::insert_new_branches, given the metric's bounds of the two children
insert_new_branches(it, cs, bound_inc, bound_exc) ==
    IF ~has_children(cs) THEN it
    ELSE consider_adding_to_queue(
             consider_adding_to_queue(it, inclusion_child(cs), FALSE, bound_inc),
             exclusion_child(cs), TRUE, bound_exc)

\* a start that forgets what the selector had selected and banned
sorted_start_fresh(m, cs) ==
    IF requires_ordering_by_descending_value_pwu(m)
    THEN sort_candidates_by_descending_value_pwu([cs EXCEPT !.selected = {}, !.banned = {}])
    ELSE [cs EXCEPT !.selected = {}, !.banned = {}]

\* BnbIter::new, given the metric's bound of the (sorted) starting selector
sorted_start(m, cs) ==
    IF requires_ordering_by_descending_value_pwu(m)
    THEN sort_candidates_by_descending_value_pwu(cs) ELSE cs

BnbIter_new_unsorted(m, cs, bound) ==
    consider_adding_to_queue([queue |-> {}, best |-> None], cs, FALSE, bound)

BnbIter_new(m, cs, bound) ==
    consider_adding_to_queue([queue |-> {}, best |-> None], sorted_start(m, cs), FALSE, bound)

\* the stop test of BnbIter::next on the popped branch
stops_at(it, branch) == IsSome(it.best) /\ RLt(Unwrap(it.best), branch.lower_bound)

is_better_or_equal(best, score) == best = None \/ RLe(Unwrap(score), Unwrap(best))

\* whether the scored node replaces the best
is_better(best, score) == best = None \/ RLt(Unwrap(score), Unwrap(best))

\* BnbIter::next scoring every popped branch, exclusion branches included
BnbIter_next_scoring_all(it, branch, score, bound_inc, bound_exc) ==
    LET popped == [it EXCEPT !.queue = @ \ {branch}]
    IN  IF stops_at(it, branch)
        THEN [iter |-> popped, item |-> None, was_scored |-> FALSE, expanded |-> FALSE]
        ELSE LET better == IsSome(score) /\ is_better(it.best, score)
                 it2 == IF better THEN [popped EXCEPT !.best = score] ELSE popped
             IN  [iter |-> insert_new_branches(it2, branch.selector, bound_inc, bound_exc),
                  item |-> Some(IF better
                                THEN Some([selector |-> branch.selector, score |-> Unwrap(score)])
                                ELSE None),
                  was_scored |-> TRUE,
                  expanded |-> TRUE]

\* BnbIter::next once `branch` has been popped, given the metric's answers:
\* the iterator afterwards, the item returned, and what the round did
BnbIter_next(it, branch, score, bound_inc, bound_exc) ==
    LET popped == [it EXCEPT !.queue = @ \ {branch}]
    IN  IF stops_at(it, branch)
        THEN [iter |-> popped, item |-> None, was_scored |-> FALSE, expanded |-> FALSE]
        ELSE LET scored == ~branch.is_exclusion
                 better == scored /\ IsSome(score) /\ is_better(it.best, score)
                 it2 == IF better THEN [popped EXCEPT !.best = score] ELSE popped
             IN  [iter |-> insert_new_branches(it2, branch.selector, bound_inc, bound_exc),
                  item |-> Some(IF better
                                THEN Some([selector |-> branch.selector, score |-> Unwrap(score)])
                                ELSE None),
                  was_scored |-> scored,
                  expanded |-> TRUE]

\* the answers one round asks of the metric, as triples <<score, bound of the
\* inclusion child, bound of the exclusion child>>; None where it does not ask
round_answers(m, it, branch) ==
    IF stops_at(it, branch) THEN {<<None, None, None>>}
    ELSE LET cs == branch.selector
         IN  {<<s, bi, be>> :
                 s \in (IF branch.is_exclusion THEN {None} ELSE score_answers(m, cs)),
                 bi \in (IF has_children(cs) THEN bound_answers(m, inclusion_child(cs)) ELSE {None}),
                 be \in (IF has_children(cs) THEN bound_answers(m, exclusion_child(cs)) ELSE {None})}

\* the smaller of an Option of a score and a score
least_of(least, score) ==
    IF least = None \/ RLt(score, Unwrap(least)) THEN Some(score) ELSE least

\* CoinSelector::run_bnb: the set of <<last improving item (an Option), rounds,
\* least score yielded (an Option)>> the chain inspect / take(max_left) /
\* flatten / last can end with, from iterator `it`, after `rounds` rounds with
\* `last` the last solution so far
RECURSIVE run_bnb_from(_, _, _, _, _, _)
run_bnb_from(m, it, max_left, rounds, last, least) ==
    IF max_left = 0 \/ it.queue = {} THEN {<<last, rounds, least>>}
    ELSE UNION {
           UNION {
             LET r == BnbIter_next(it, b, a[1], a[2], a[3])
             IN  IF r.item = None THEN {<<last, rounds, least>>}
                 ELSE IF IsSome(Unwrap(r.item))
                      THEN run_bnb_from(m, r.iter, max_left - 1, rounds + 1, Unwrap(r.item),
                                        least_of(least, Unwrap(Unwrap(r.item)).score))
                      ELSE run_bnb_from(m, r.iter, max_left - 1, rounds + 1, last, least)
             : a \in round_answers(m, it, b) }
           : b \in pop_candidates(it.queue) }

run_bnb_one_more(m, cs, max_rounds) ==
    UNION { run_bnb_from(m, BnbIter_new(m, cs, b0), max_rounds + 1, 0, None, None)
            : b0 \in bound_answers(m, sorted_start(m, cs)) }

run_bnb(m, cs, max_rounds) ==
    UNION { run_bnb_from(m, BnbIter_new(m, cs, b0), max_rounds, 0, None, None)
            : b0 \in bound_answers(m, sorted_start(m, cs)) }

----------------------------------------------------------------------------
(* The inputs the model draws from *)

CandidateKinds ==
    { [value |-> 1000, weight |-> 100, input_count |-> 1, is_segwit |-> TRUE],
      [value |-> 1000, weight |-> 100, input_count |-> 1, is_segwit |-> FALSE],
      [value |-> 101,  weight |-> 100, input_count |-> 1, is_segwit |-> TRUE],
      [value |-> 10,   weight |-> 100, input_count |-> 1, is_segwit |-> TRUE] }

CandidateLists == UNION { [0..(n - 1) -> CandidateKinds] : n \in 0..MaxBnbN }

MkTarget(rate, replace, value_sum) ==
    [fee |-> [rate |-> rate, replace |-> replace],
     outputs |-> [value_sum |-> value_sum, weight_sum |-> 0, n_outputs |-> 1]]

Targets ==
    { MkTarget(4, None, 848),
      MkTarget(4, None, 100),
      MkTarget(1, Some([fee |-> 150, incremental_relay_feerate |-> 1]), 848) }

ChangePolicies ==
    { [min_value |-> mv,
       drain_weights |-> [output_weight |-> 10, spend_weight |-> 200, n_outputs |-> 1]]
      : mv \in {0, 50} }

LongTermFeerates == {4}

Indices == 0..(N - 1)

NoOp == [name |-> "new", arg |-> -1]
MkOp(name, arg) == [name |-> name, arg |-> arg]

\* return values: (), a bool, Option<()>, Result<(), InsufficientFunds>,
\* Result<Ordf32, NoBnbSolution>
Unit == [kind |-> "unit"]
Bool(b) == [kind |-> "bool", value |-> b]
OptionUnit(b) == [kind |-> "option", is_some |-> b]
Ok(x) == [kind |-> "ok", value |-> x]
ErrInsufficientFunds(m) == [kind |-> "err", missing |-> m]
ErrNoBnbSolution(max_rounds, rounds) == [kind |-> "err", max_rounds |-> max_rounds, rounds |-> rounds]

NoHist ==
    [rounds |-> 0, terminated |-> FALSE, popped |-> None, best_before |-> None,
     answers |-> <<None, None, None>>, was_scored |-> FALSE, expanded |-> FALSE,
     last_emitted |-> None, prev_emitted |-> None,
     after_end |-> FALSE, scored |-> {}, yielded |-> {}]

----------------------------------------------------------------------------
(* The selector under its public operations *)

\* the candidate slices and the one target / policy of the selector runs
SelectorKinds == {c \in CandidateKinds : c.is_segwit /\ c.value # 101}
SelectorLists == UNION { [0..(n - 1) -> SelectorKinds] : n \in 0..MaxN }

Init ==
    /\ candidates \in SelectorLists
    /\ target = MkTarget(4, None, 848)
    /\ change_policy = [min_value |-> 0,
                        drain_weights |-> [output_weight |-> 10, spend_weight |-> 200, n_outputs |-> 1]]
    /\ long_term_feerate = 4
    /\ selected = {}
    /\ banned = {}
    /\ candidate_order = [k \in 1..Cardinality(DOMAIN candidates) |-> k - 1]
    /\ metric = "LowestFee"
    /\ op = NoOp
    /\ ret = Unit
    /\ iter = None
    /\ out = None
    /\ hist = NoHist

Params == <<candidates, target, change_policy, long_term_feerate>>
Search == <<iter, out, hist>>

\* the selector after the call becomes the live selector
Becomes(cs) ==
    /\ selected' = cs.selected
    /\ banned' = cs.banned
    /\ candidate_order' = cs.candidate_order

\* select(index) with index < N; an index >= N fails the assertion, the call
\* does not return and no state is left to observe
Select ==
    \E index \in Indices :
        /\ Becomes(select(Self, index))
        /\ op' = MkOp("select", index)
        /\ ret' = Bool(index \notin selected)
        /\ UNCHANGED <<Params, metric, Search>>

Deselect ==
    \E index \in 0..N :
        /\ Becomes(deselect(Self, index))
        /\ op' = MkOp("deselect", index)
        /\ ret' = Bool(index \in selected)
        /\ UNCHANGED <<Params, metric, Search>>

\* ban(index) takes any usize
Ban ==
    \E index \in 0..N :
        /\ Becomes(ban(Self, index))
        /\ op' = MkOp("ban", index)
        /\ ret' = Unit
        /\ UNCHANGED <<Params, metric, Search>>

SelectNext ==
    /\ Becomes(select_next(Self))
    /\ op' = MkOp("select_next", -1)
    /\ ret' = Bool(unselected_indices(Self) # <<>>)
    /\ UNCHANGED <<Params, metric, Search>>

SelectAll ==
    /\ Becomes(select_all(Self))
    /\ op' = MkOp("select_all", -1)
    /\ ret' = Unit
    /\ UNCHANGED <<Params, metric, Search>>

SelectAllEffective ==
    /\ Becomes(select_all_effective(Self, target.fee.rate))
    /\ op' = MkOp("select_all_effective", target.fee.rate)
    /\ ret' = Unit
    /\ UNCHANGED <<Params, metric, Search>>

SelectUntil ==
    \E pred \in Predicates :
        /\ pred.kind # "target_met"
        /\ LET r == select_until(Self, pred)
           IN  /\ Becomes(r[1])
               /\ op' = MkOp("select_until", pred.n)
               /\ ret' = OptionUnit(r[2])
        /\ UNCHANGED <<Params, metric, Search>>

SelectUntilTargetMet ==
    /\ LET r == select_until_target_met(Self, target)
       IN  /\ Becomes(r[1])
           /\ op' = MkOp("select_until_target_met", -1)
           /\ ret' = IF r[2] THEN Ok(Unit) ELSE ErrInsufficientFunds(r[3])
    /\ UNCHANGED <<Params, metric, Search>>

SortCandidatesBy ==
    \E cmp \in Comparators :
        /\ Becomes(sort_candidates_by(Self, cmp))
        /\ op' = MkOp("sort_candidates_by", -1)
        /\ ret' = Unit
        /\ UNCHANGED <<Params, metric, Search>>

SortCandidatesByKey ==
    \E key \in Comparators :
        /\ Becomes(sort_candidates_by_key(Self, key))
        /\ op' = MkOp("sort_candidates_by_key", -1)
        /\ ret' = Unit
        /\ UNCHANGED <<Params, metric, Search>>

SortCandidatesByDescendingValuePwu ==
    /\ Becomes(sort_candidates_by_descending_value_pwu(Self))
    /\ op' = MkOp("sort_candidates_by_descending_value_pwu", -1)
    /\ ret' = Unit
    /\ UNCHANGED <<Params, metric, Search>>

\* the Result of run_bnb: `.last().ok_or(NoBnbSolution { max_rounds, rounds })`
\* and Ok(score), from <<last improving item, rounds, least score>>
run_bnb_result(res, max_rounds) ==
    IF IsSome(res[1]) THEN Ok(Unwrap(res[1]).score)
    ELSE ErrNoBnbSolution(max_rounds, res[2])

\* run_bnb(metric, max_rounds): Ok replaces self with the last solution
RunBnb ==
    \E m \in {"LowestFee"}, max_rounds \in 0..MaxRounds :
        \E res \in run_bnb(m, Self, max_rounds) :
            /\ Becomes(IF IsSome(res[1]) THEN Unwrap(res[1]).selector ELSE Self)
            /\ metric' = m
            /\ op' = MkOp("run_bnb", max_rounds)
            /\ ret' = run_bnb_result(res, max_rounds)
            /\ UNCHANGED <<Params, Search>>

Next ==
    \/ Select
    \/ Deselect
    \/ Ban
    \/ SelectNext
    \/ SelectAll
    \/ SelectAllEffective
    \/ SelectUntil
    \/ SelectUntilTargetMet
    \/ SortCandidatesBy
    \/ SortCandidatesByKey
    \/ SortCandidatesByDescendingValuePwu
    \/ RunBnb

Spec == Init /\ [][Next]_vars

----------------------------------------------------------------------------
(* A branch-and-bound search: bnb_solutions(metric) on a starting selector, *)
(* then BnbIter::next call after call.  The live selector is the starting  *)
(* selector; bnb_solutions borrows it and works on clones.                 *)

\* the candidates of tests/bnb.rs (weight 100, segwit), with small values
SmallKinds ==
    { [value |-> v, weight |-> 100, input_count |-> 1, is_segwit |-> TRUE] : v \in {3, 5, 8} }

SmallLists == UNION { [0..(n - 1) -> SmallKinds] : n \in 0..MaxBnbN }

\* the arbitrary metric runs on slices of at most two candidates, equal or not
AnyLists == UNION { [0..(n - 1) -> {c \in SmallKinds : c.value # 3}] : n \in 0..2 }

\* TargetFee::ZERO and TargetFee::default() targets of tests/bnb.rs
SmallTargets == { MkTarget(0, None, 8), MkTarget(0, None, 11) }

DefaultPolicy ==
    [min_value |-> 0,
     drain_weights |-> [output_weight |-> 10, spend_weight |-> 200, n_outputs |-> 1]]

InitBnb ==
    /\ metric \in Metrics
    /\ IF metric = "LowestFee"
       THEN /\ candidates \in CandidateLists
            /\ target \in Targets
            /\ change_policy \in ChangePolicies
            /\ long_term_feerate \in LongTermFeerates
       ELSE /\ candidates \in (IF metric = "Any" THEN AnyLists ELSE SmallLists)
            /\ target \in SmallTargets
            /\ change_policy = DefaultPolicy
            /\ long_term_feerate = 4
    \* the starting selector: fresh, or with one candidate selected or banned
    /\ selected \in {S \in SUBSET DOMAIN candidates : Cardinality(S) <= 1}
    /\ banned \in {B \in SUBSET DOMAIN candidates : Cardinality(B) + Cardinality(selected) <= 1}
    /\ candidate_order = [k \in 1..Cardinality(DOMAIN candidates) |-> k - 1]
    /\ op = NoOp
    /\ ret = Unit
    /\ iter = None
    /\ out = None
    /\ hist = NoHist

\* bnb_solutions(metric): BnbIter::new on a clone of the selector
BnbSolutions ==
    /\ iter = None
    /\ \E b0 \in bound_answers(metric, sorted_start(metric, Self)) :
           iter' = Some(BnbIter_new(metric, Self, b0))
    /\ UNCHANGED <<Params, selected, banned, candidate_order, metric, op, ret, out, hist>>

\* BnbIter::next on an empty queue: `self.queue.pop()?`
BnbNextEmpty ==
    /\ iter # None
    /\ Unwrap(iter).queue = {}
    /\ out' = None
    /\ hist' = [hist EXCEPT !.terminated = TRUE, !.popped = None,
                            !.best_before = Unwrap(iter).best,
                            !.answers = <<None, None, None>>,
                            !.was_scored = FALSE, !.expanded = FALSE,
                            !.after_end = hist.terminated]
    /\ UNCHANGED <<Params, selected, banned, candidate_order, metric, op, ret, iter>>

\* BnbIter::next with a branch to pop
BnbNextPop ==
    /\ iter # None
    /\ \E branch \in pop_candidates(Unwrap(iter).queue) :
       \E a \in round_answers(metric, Unwrap(iter), branch) :
           LET r == BnbIter_next(Unwrap(iter), branch, a[1], a[2], a[3])
               improved == r.item # None /\ IsSome(Unwrap(r.item))
           IN  /\ iter' = Some(r.iter)
               /\ out' = r.item
               /\ hist' = [rounds |-> IF r.item = None \/ hist.terminated
                                      THEN hist.rounds ELSE hist.rounds + 1,
                           terminated |-> hist.terminated \/ r.item = None,
                           popped |-> Some(branch),
                           best_before |-> Unwrap(iter).best,
                           answers |-> a,
                           was_scored |-> r.was_scored,
                           expanded |-> r.expanded,
                           last_emitted |-> IF improved THEN Some(Unwrap(Unwrap(r.item)).score)
                                            ELSE hist.last_emitted,
                           prev_emitted |-> IF improved THEN hist.last_emitted
                                            ELSE hist.prev_emitted,
                           after_end |-> hist.terminated,
                           scored |-> IF r.was_scored
                                      THEN hist.scored \cup {branch.selector.selected}
                                      ELSE hist.scored,
                           yielded |-> IF improved
                                       THEN hist.yielded \cup {branch.selector.selected}
                                       ELSE hist.yielded]
    /\ UNCHANGED <<Params, selected, banned, candidate_order, metric, op, ret>>

NextBnb ==
    \/ BnbSolutions
    \/ BnbNextEmpty
    \/ BnbNextPop

SpecBnb == InitBnb /\ [][NextBnb]_vars

----------------------------------------------------------------------------
(* The search space of a branch-and-bound run *)

\* the node the search starts from
start_node == sorted_start(metric, Self)

\* the candidates a node can still select
free(cs) == SeqToSet(unselected_indices(cs))

\* cs itself and every selector got from it by selecting more of its
\* unselected, unbanned candidates
Descendants(cs) == { [cs EXCEPT !.selected = @ \cup X] : X \in SUBSET free(cs) }

\* every node below cs: more candidates selected, more candidates banned
Nodes(cs) ==
    { [cs EXCEPT !.selected = @ \cup X, !.banned = @ \cup Y] :
        X \in SUBSET free(cs), Y \in SUBSET free(cs) }

\* the scores a set of selectors has under the metric
ScoresOf(m, sels) ==
    { Unwrap(metric_score(m, d)) : d \in { e \in sels : IsSome(metric_score(m, e)) } }

\* the least of a set of scores, None for the empty set
RMin(S) == IF S = {} THEN None ELSE Some(CHOOSE s \in S : \A t \in S : RLe(s, t))

\* exhaustive enumeration from the starting selector
ExhaustiveMin == RMin(ScoresOf(metric, Descendants(start_node)))

\* the metric's bound is admissible on node n: no descendant with a score
\* scores below it, and the bound is None only if no descendant has a score
AdmissibleAt(m, n) ==
    LET b == metric_bound(m, n)
        S == ScoresOf(m, Descendants(n))
    IN  IF IsSome(b) THEN \A s \in S : RLe(Unwrap(b), s) ELSE S = {}

Admissible == \A n \in Nodes(start_node) : AdmissibleAt(metric, n)

----------------------------------------------------------------------------
(* C1: BnB optimality.  When a search with an admissible metric, driven with *)
(* no round limit, has returned its terminating None, the score of the last *)
(* solution it yielded is the minimum of metric.score over every selection  *)
(* got from the starting selector by selecting any subset of its unselected, *)
(* unbanned candidates; it has yielded none if no such selection has a      *)
(* score.                                                                   *)
C1_BnbOptimality ==
    (hist.terminated /\ metric # "Any" /\ Admissible) => hist.last_emitted = ExhaustiveMin

----------------------------------------------------------------------------
----------------------------------------------------------------------------
(* C3: LowestFee bound admissibility.  With the candidates ordered by       *)
(* descending value_pwu, the bound Some(b) that LowestFee gave a node N is  *)
(* no greater than the score of N, if N has one, nor than the score of any  *)
(* descendant D of N (N plus further selected unbanned candidates) that has *)
(* one.                                                                     *)
C3_LowestFeeBoundAdmissible ==
    (metric = "LowestFee" /\ hist.popped # None) =>
        LET n == Unwrap(hist.popped).selector
            b == LowestFee_bound(n)
        IN  IsSome(b) =>
                \A d \in Descendants(n) :
                    IsSome(LowestFee_score(d)) => RLe(Unwrap(b), Unwrap(LowestFee_score(d)))

----------------------------------------------------------------------------
\* the selectors a search has in hand: the starting one and the popped one
SelectorsAtHand ==
    {Self} \cup (IF hist.popped # None THEN {Unwrap(hist.popped).selector} ELSE {})

\* the drains the excess is asked about
DrainsOf(cs) ==
    { DrainNONE, drain(cs, target, change_policy),
      MkDrain(change_policy.drain_weights, 0), MkDrain(change_policy.drain_weights, 7) }

(* C4: drain conservation.  If drain_value(target, policy) is Some(v), the  *)
(* target is met with the drain of weights policy.drain_weights and value v *)
(* exactly when it is met without a drain (the debug assertion of           *)
(* drain_value holds); and whenever the target is met it is also met with   *)
(* the drain that drain(target, policy) returns.                            *)
C4_DrainConservation ==
    \A cs \in SelectorsAtHand :
        /\ drain_value_assertion(cs, target, change_policy)
        /\ is_target_met(cs, target) =>
               is_target_met_with_drain(cs, target, drain(cs, target, change_policy))

\* a popped selection that meets the target and gets a change output, in a
\* search whose change policy has a positive min_value
C4_ChangeAdded ==
    /\ hist.popped # None
    /\ LET cs == Unwrap(hist.popped).selector
       IN  /\ is_target_met(cs, target)
           /\ IsSome(drain_value(cs, target, change_policy))
           /\ change_policy.min_value > 0

(* C5: excess/target consistency.  For every drain, excess is the smaller   *)
(* of rate_excess and replacement_excess; is_target_met_with_drain holds    *)
(* iff it is >= 0, iff the fee paid, fee(target.value(), drain.value), is   *)
(* at least implied_fee(target, drain.weights).  is_target_met is the case  *)
(* of Drain::NONE; missing is 0 exactly when the target is met, otherwise   *)
(* it is -excess(target, NONE).                                             *)
C5_ExcessTargetConsistency ==
    \A cs \in SelectorsAtHand :
        /\ \A d \in DrainsOf(cs) :
               /\ excess(cs, target, d)
                    = Min2(rate_excess(cs, target, d), replacement_excess(cs, target, d))
               /\ is_target_met_with_drain(cs, target, d) <=> excess(cs, target, d) >= 0
               /\ excess(cs, target, d) >= 0
                    <=> fee(cs, target_value(target), d.value)
                          >= implied_fee(cs, target, d.weights)
        /\ is_target_met(cs, target) <=> is_target_met_with_drain(cs, target, DrainNONE)
        /\ missing(cs, target) = 0 <=> is_target_met(cs, target)
        /\ ~is_target_met(cs, target) =>
               missing(cs, target) = 0 - excess(cs, target, DrainNONE)

\* a replacement target met by the popped selection, which gets a change
\* output, the feerate fee and the replacement fee differing
C5_ReplacementTargetMet ==
    /\ hist.popped # None
    /\ IsSome(target.fee.replace)
    /\ LET cs == Unwrap(hist.popped).selector
       IN  /\ is_target_met(cs, target)
           /\ drain(cs, target, change_policy) # DrainNONE
           /\ rate_excess(cs, target, DrainNONE) # replacement_excess(cs, target, DrainNONE)

----------------------------------------------------------------------------
(* C6: BnB stop rule.  In a round that pops a branch while a best score     *)
(* exists with best <= the branch's lower_bound, next returns the           *)
(* terminating None and the branch is neither scored nor expanded; so a     *)
(* popped branch whose lower_bound equals the best ends the search.         *)
C6_StopRule ==
    ( /\ hist.popped # None
      /\ IsSome(hist.best_before)
      /\ RLe(Unwrap(hist.best_before), Unwrap(hist.popped).lower_bound) )
    => (out = None /\ ~hist.was_scored /\ ~hist.expanded)

----------------------------------------------------------------------------
(* C7: index-bound invariant.  In every state reached by select, deselect,  *)
(* ban, select_next, select_all, select_all_effective, select_until and     *)
(* run_bnb calls that return normally, every index in the selected set and  *)
(* every index in the banned set is < N.                                    *)
C7_IndexBound ==
    /\ \A i \in selected : i < N
    /\ \A i \in banned : i < N

(* C8: permutation invariant.  In every state reached by the selector's    *)
(* operations (new, select, deselect, ban, the sort_candidates_by* family,  *)
(* the greedy helpers, the selector run_bnb leaves), candidate_order holds  *)
(* each index 0..N-1 exactly once.                                          *)
C8_Permutation ==
    /\ Len(candidate_order) = N
    /\ \A i \in 0..(N - 1) : Cardinality({k \in DOMAIN candidate_order : candidate_order[k] = i}) = 1

\* run_bnb has left a selector whose order is not the order of construction
C8_ReorderedByRunBnb ==
    /\ op.name = "run_bnb"
    /\ selected # {}
    /\ candidate_order # new_selector.candidate_order

\* the calls that select along unselected_indices / candidate_order
GreedyOps ==
    {"select_next", "select_all", "select_until", "select_until_target_met",
     "select_all_effective"}

(* C9: ban semantics.  unselected_indices() yields exactly the indices      *)
(* that are neither selected nor banned; select_next, select_all,           *)
(* select_until, select_until_target_met and select_all_effective never add *)
(* a banned index to the selected set; select(i) on a banned i < N adds i   *)
(* to selected; ban(i) on a selected i leaves it selected.                  *)
C9_BanSemantics ==
    /\ [](/\ SeqToSet(unselected_indices(Self)) = (0..(N - 1)) \ (selected \cup banned)
          /\ Len(unselected_indices(Self)) = Cardinality(SeqToSet(unselected_indices(Self))))
    /\ [][ /\ op'.name \in GreedyOps => (selected' \ selected) \cap banned = {}
           /\ op'.name = "select" => op'.arg \in selected'
           /\ (op'.name = "ban" /\ op'.arg \in selected) => op'.arg \in selected'
         ]_vars

\* select(i) has returned on a banned index i, with another index banned
\* and left unselected
C9_BannedThenSelected ==
    /\ op.name = "select"
    /\ op.arg \in banned
    /\ op.arg \in selected
    /\ \E j \in banned : j < N /\ j \notin selected

\* the (original_index, Candidate) pairs of a sequence of indices
with_candidate(s) == [k \in DOMAIN s |-> <<s[k], candidates[s[k]]>>]

SortOps ==
    {"sort_candidates_by", "sort_candidates_by_key", "sort_candidates_by_descending_value_pwu"}

\* the indices of S in candidate_order order
InCandidateOrder(S) == FilterIn(candidate_order, S)

(* C10: iteration order.  After a sort_candidates_by /                      *)
(* sort_candidates_by_key / sort_candidates_by_descending_value_pwu call,   *)
(* unselected() and candidates() yield their (original_index, Candidate)    *)
(* pairs in candidate_order order, and selected() yields its pairs in       *)
(* ascending order of original index.                                       *)
C10_IterationOrder ==
    op.name \in SortOps =>
        /\ with_candidate(candidates_iter(Self)) = with_candidate(candidate_order)
        /\ with_candidate(unselected_indices(Self))
             = with_candidate(InCandidateOrder(SeqToSet(unselected_indices(Self))))
        /\ with_candidate(selected_iter(Self)) = with_candidate(Ascending(selected))

(* C10 as stated: after a sort call each of selected(), unselected() and    *)
(* candidates() yields its pairs in candidate_order order.                  *)
C10_AllInCandidateOrder ==
    op.name \in SortOps =>
        /\ with_candidate(candidates_iter(Self)) = with_candidate(candidate_order)
        /\ with_candidate(unselected_indices(Self))
             = with_candidate(InCandidateOrder(SeqToSet(unselected_indices(Self))))
        /\ with_candidate(selected_iter(Self)) = with_candidate(InCandidateOrder(selected))

\* a sort has put two selected candidates in the order opposite to their indices
C10_SelectedAgainstOrder ==
    /\ op.name \in SortOps
    /\ \E i, j \in selected :
           /\ i < j
           /\ \E a, b \in DOMAIN candidate_order :
                  a < b /\ candidate_order[a] = j /\ candidate_order[b] = i

----------------------------------------------------------------------------
\* the live selector after the step
SelfNext == [selected |-> selected', banned |-> banned', candidate_order |-> candidate_order']

----------------------------------------------------------------------------
\* the selector with the first k of the indices u selected as well
with_prefix(cs, u, k) == [cs EXCEPT !.selected = @ \cup {u[j] : j \in 1..k}]

(* C12: select_until_target_met(target) selects the unselected, unbanned    *)
(* candidates in candidate_order one at a time and stops at the first state *)
(* that meets the target (selecting nothing if it is met already),          *)
(* returning Ok; if no such state is reached it returns                     *)
(* Err(InsufficientFunds{missing}) with every unbanned candidate selected   *)
(* and missing = -excess(target, Drain::NONE) > 0 at that state.            *)
C12_SelectUntilTargetMet ==
    [][ op'.name = "select_until_target_met" =>
          LET u == unselected_indices(Self)
          IN  \E k \in 0..Len(u) :
                /\ SelfNext = with_prefix(Self, u, k)
                /\ \A j \in 0..(k - 1) : ~is_target_met(with_prefix(Self, u, j), target)
                /\ IF is_target_met(SelfNext, target)
                   THEN ret' = Ok(Unit)
                   ELSE /\ k = Len(u)
                        /\ (0..(N - 1)) \ banned' \subseteq selected'
                        /\ ret'.kind = "err"
                        /\ ret'.missing = 0 - excess(SelfNext, target, DrainNONE)
                        /\ ret'.missing > 0
      ]_vars

\* the call has failed after selecting what was left, one candidate banned
C12_InsufficientFunds ==
    /\ op.name = "select_until_target_met"
    /\ ret.kind = "err"
    /\ selected # {}
    /\ \E i \in banned : i < N /\ i \notin selected

----------------------------------------------------------------------------
(* Replace::min_fee_to_do_replacement on its own, and pays_for_rbf of       *)
(* tests/rbf.rs.  The Replace is target.fee.replace.                        *)

MaxSmallWeight == 9     \* the replacing weights 0..MaxSmallWeight are all tried

\* original fees of tests/rbf.rs: low_fee, high_fee, high_fee + 1
OriginalFees == {1000, 100000, 100001}

\* FeeRate::ZERO, DEFUALT_RBF_INCREMENTAL_RELAY, from_sat_per_vb(2.0), from_sat_per_vb(3.0)
RelayFeerates == {0, 1, 2, 3}

\* replacement_vsize of tests/rbf.rs
ReplacementVsizes == {1, 2, 99999999}

\* replacing weights: small ones, those of the vsizes, and some around 2^24
ReplacingWeights ==
    (0..MaxSmallWeight) \cup {4 * v : v \in ReplacementVsizes}
        \cup {16777216, 16777217, 16777218, 16777219}

\* replacement_fees of tests/rbf.rs
ReplacementFees ==
    {100000 - 1, 100000, 100000 + 1, 100000 + 2, 100000 + 4, 100000 + 99999999}

U64(v) == [kind |-> "u64", value |-> v]

InitRbf ==
    /\ candidates = <<>>
    /\ \E f \in OriginalFees, r \in RelayFeerates :
           target = MkTarget(0, Some([fee |-> f, incremental_relay_feerate |-> r]), 0)
    /\ change_policy = DefaultPolicy
    /\ long_term_feerate = 0
    /\ selected = {}
    /\ banned = {}
    /\ candidate_order = <<>>
    /\ metric = "LowestFee"
    /\ op = NoOp
    /\ ret = Unit
    /\ iter = None
    /\ out = None
    /\ hist = NoHist

MinFeeToDoReplacement ==
    \E w \in ReplacingWeights :
        /\ op' = MkOp("min_fee_to_do_replacement", w)
        /\ ret' = U64(min_fee_to_do_replacement(Unwrap(target.fee.replace), w))
        /\ UNCHANGED <<Params, selected, banned, candidate_order, metric, Search>>

\* pays_for_rbf(original_fees, replacement_fees, replacement_vsize, relay_fee)
PaysForRbf ==
    \E replacement_fees \in ReplacementFees, replacement_vsize \in ReplacementVsizes :
        /\ op' = MkOp("pays_for_rbf", <<replacement_fees, replacement_vsize>>)
        /\ ret' = Bool(replacement_fees
                         >= min_fee_to_do_replacement(Unwrap(target.fee.replace),
                                                      replacement_vsize * 4))
        /\ UNCHANGED <<Params, selected, banned, candidate_order, metric, Search>>

NextRbf ==
    \/ MinFeeToDoReplacement
    \/ PaysForRbf

SpecRbf == InitRbf /\ [][NextRbf]_vars

\* ceil(w * feerate) in exact arithmetic, feerate in quarter satoshis per wu
exact_ceil_fee(feerate, w) == (w * feerate + 3) \div 4

(* C13: RBF rule 4 arithmetic.  For every Replace{fee,                      *)
(* incremental_relay_feerate} and replacing weight w,                       *)
(* min_fee_to_do_replacement(w) = fee + ceil(w * incremental_relay_feerate) *)
(* (100_001 for w = 4 and 100_002 for w = 8 with fee 100_000 at 0.25        *)
(* sat/wu), and a replacement paying replacement_fees for vsize v passes    *)
(* iff replacement_fees >= fee + ceil(4v * incremental_relay_feerate).      *)
C13_RbfRule4 ==
    LET replace == Unwrap(target.fee.replace)
    IN  /\ op.name = "min_fee_to_do_replacement" =>
               ret.value = replace.fee
                             + exact_ceil_fee(replace.incremental_relay_feerate, op.arg)
        /\ op.name = "pays_for_rbf" =>
               ret.value = (op.arg[1] >= replace.fee
                              + exact_ceil_fee(replace.incremental_relay_feerate, 4 * op.arg[2]))

----------------------------------------------------------------------------
(* The input weight under select and deselect *)

\* candidates of either kind, of weight 0 or 100, standing for 0, 1, 252 or
\* 65535 inputs (the input counts around the steps of varint_size)
WeightKinds ==
    { [value |-> 1000, weight |-> w, input_count |-> c, is_segwit |-> s]
        : w \in {0, 100}, c \in {0, 1, 252, 65535}, s \in BOOLEAN }

WeightLists == UNION { [0..(n - 1) -> WeightKinds] : n \in 0..MaxN }

InitWeight ==
    /\ candidates \in WeightLists
    /\ target = MkTarget(4, None, 848)
    /\ change_policy = DefaultPolicy
    /\ long_term_feerate = 4
    /\ selected = {}
    /\ banned = {}
    /\ candidate_order = [k \in 1..Cardinality(DOMAIN candidates) |-> k - 1]
    /\ metric = "LowestFee"
    /\ op = NoOp
    /\ ret = Unit
    /\ iter = None
    /\ out = None
    /\ hist = NoHist

NextWeight ==
    \/ Select
    \/ Deselect

SpecWeight == InitWeight /\ [][NextWeight]_vars

(* C14: weight monotonicity.  For every selector state and every index     *)
(* i < N that is not selected, input_weight() after select(i) is at least  *)
(* input_weight() before it, for any mix of segwit and non-segwit           *)
(* candidates and any input counts.                                         *)
C14_WeightMonotonicity ==
    [][(op'.name = "select" /\ op'.arg \notin selected)
          => input_weight(SelfNext) >= input_weight(Self)]_vars

\* a segwit candidate was selected into a selection of non-segwit candidates
\* and the number of inputs went past 252
C14_SegwitJoinsLegacy ==
    /\ op.name = "select"
    /\ candidates[op.arg].is_segwit
    /\ \E i \in selected : ~candidates[i].is_segwit
    /\ \A i \in selected \ {op.arg} : ~candidates[i].is_segwit
    /\ SetSum(selected, [i \in selected |-> candidates[i].input_count]) > 252
    /\ SetSum(selected \ {op.arg},
              [i \in selected \ {op.arg} |-> candidates[i].input_count]) <= 252

----------------------------------------------------------------------------
(* LowestFee::score on the selections of a selector *)

\* targets at FeeRate::ZERO and at 1 sat/wu, with and without Replace
ScoreTargets ==
    { MkTarget(0, None, 1000),
      MkTarget(0, None, 0),
      MkTarget(4, None, 848),
      MkTarget(4, None, 798),
      MkTarget(0, Some([fee |-> 0, incremental_relay_feerate |-> 0]), 1000),
      MkTarget(0, Some([fee |-> 150, incremental_relay_feerate |-> 1]), 1000),
      MkTarget(1, Some([fee |-> 150, incremental_relay_feerate |-> 1]), 848) }

InitScore ==
    /\ candidates \in UNION { [0..(n - 1) -> CandidateKinds] : n \in 0..MaxN }
    /\ target \in ScoreTargets
    /\ change_policy \in ChangePolicies
    /\ long_term_feerate \in {0, 4}
    /\ selected = {}
    /\ banned = {}
    /\ candidate_order = [k \in 1..Cardinality(DOMAIN candidates) |-> k - 1]
    /\ metric = "LowestFee"
    /\ op = NoOp
    /\ ret = Unit
    /\ iter = None
    /\ out = None
    /\ hist = NoHist

\* a failed assert!: the call does not return
Panic == [kind |-> "panic"]
OptionScore(s) == [kind |-> "score", value |-> s]

\* LowestFee { target, long_term_feerate, change_policy }.score(&cs)
Score ==
    /\ op' = MkOp("score", -1)
    /\ ret' = IF LowestFee_score_assertion(Self)
              THEN OptionScore(LowestFee_score(Self))
              ELSE Panic
    /\ UNCHANGED <<Params, selected, banned, candidate_order, metric, Search>>

NextScore ==
    \/ Select
    \/ Deselect
    \/ Score

SpecScore == InitScore /\ [][NextScore]_vars

(* C15: LowestFee.score assertion validity.  For every selector state,      *)
(* change policy and target (any feerate including FeeRate::ZERO, with or   *)
(* without Replace) for which is_target_met(target) holds, the transaction  *)
(* fee fee(target.value(), drain.value) with drain = drain(target, policy)  *)
(* is strictly positive, so the assertion inside score never fails and      *)
(* score returns Some(that fee + drain.weights.spend_fee(long_term_feerate)); *)
(* score returns None exactly when is_target_met(target) is false.          *)
C15_ScoreAssertion ==
    op.name = "score" =>
        LET d == drain(Self, target, change_policy)
            fee_for_the_tx == fee(Self, target_value(target), d.value)
        IN  /\ is_target_met(Self, target) =>
                  /\ fee_for_the_tx > 0
                  /\ ret = OptionScore(Some(RInt(fee_for_the_tx
                                                   + spend_fee(d.weights, long_term_feerate))))
            /\ ~is_target_met(Self, target) => ret = OptionScore(None)
            /\ ret = OptionScore(None) => ~is_target_met(Self, target)

----------------------------------------------------------------------------
(* Branch and bound over identical candidates (tests/lowest_fee.rs) *)

IdenticalLists ==
    { [i \in 0..(n - 1) |-> c] : c \in CandidateKinds, n \in 1..MaxBnbN }

\* ChangePolicy::min_value(drain_weights, drain_dust), drain_dust up to 1000
IdenticalPolicies ==
    { [min_value |-> mv,
       drain_weights |-> [output_weight |-> 10, spend_weight |-> 200, n_outputs |-> 1]]
      : mv \in {0, 50, 1000} }

InitIdentical ==
    /\ metric = "LowestFee"
    /\ candidates \in IdenticalLists
    /\ target \in Targets
    /\ change_policy \in IdenticalPolicies
    /\ long_term_feerate \in {0, 4}
    /\ selected = {}
    /\ banned = {}
    /\ candidate_order = [k \in 1..Cardinality(DOMAIN candidates) |-> k - 1]
    /\ op = NoOp
    /\ ret = Unit
    /\ iter = None
    /\ out = None
    /\ hist = NoHist

SpecIdentical == InitIdentical /\ [][NextBnb]_vars

(* C16: identical-candidate fast path.  For N candidates that are all      *)
(* identical, any target, any change policy and any long-term feerate, a   *)
(* bnb_solutions run with the LowestFee metric that finds a solution        *)
(* reaches its terminating None after at most N + 1 rounds.                 *)
C16_IdenticalCandidates ==
    (/\ metric = "LowestFee"
     /\ \A i, j \in DOMAIN candidates : candidates[i] = candidates[j]
     /\ selected = {} /\ banned = {}
     /\ hist.terminated
     /\ IsSome(hist.last_emitted))
        => hist.rounds <= N + 1

----------------------------------------------------------------------------
(* C17: branch and bound finds a solution whenever one is possible.  For   *)
(* any candidate list and any zero-fee target, a bnb_solutions run to       *)
(* termination with MinExcessThenWeight (score Some exactly when            *)
(* excess(target, NONE) >= 0, bound Some exactly when                       *)
(* select_until_target_met succeeds from the node) yields at least one      *)
(* solution whenever is_selection_possible(target) is true, and every       *)
(* yielded selector has selected_value() >= target.value().                 *)
C17_FindsSolutionIfPossible ==
    (metric = "MinExcessThenWeight" /\ target.fee.rate = 0 /\ target.fee.replace = None) =>
        /\ (out # None /\ IsSome(Unwrap(out))) =>
               selected_value(Unwrap(Unwrap(out)).selector) >= target_value(target)
        /\ (hist.terminated /\ is_selection_possible(Self, target)) =>
               IsSome(hist.last_emitted)

\* a run that ended with a solution for which every candidate was needed
C17_AllNeeded ==
    /\ metric = "MinExcessThenWeight"
    /\ hist.terminated
    /\ IsSome(hist.last_emitted)
    /\ N >= 2
    /\ selected = {} /\ banned = {}
    /\ SetSum(DOMAIN candidates, [i \in DOMAIN candidates |-> candidates[i].value])
           - Min2(candidates[0].value, candidates[1].value) < target_value(target)

----------------------------------------------------------------------------
(* is_selection_possible on the selections of a selector *)

InitPossible ==
    /\ candidates \in UNION { [0..(n - 1) -> CandidateKinds] : n \in 0..MaxN }
    /\ target \in Targets \cup {MkTarget(4, None, 860),
                            MkTarget(0, Some([fee |-> 0, incremental_relay_feerate |-> 4]), 848)}
    /\ change_policy = DefaultPolicy
    /\ long_term_feerate = 4
    /\ selected = {}
    /\ banned = {}
    /\ candidate_order = [k \in 1..Cardinality(DOMAIN candidates) |-> k - 1]
    /\ metric = "LowestFee"
    /\ op = NoOp
    /\ ret = Unit
    /\ iter = None
    /\ out = None
    /\ hist = NoHist

\* is_selection_possible(target) takes &self
IsSelectionPossible ==
    /\ op' = MkOp("is_selection_possible", -1)
    /\ ret' = Bool(is_selection_possible(Self, target))
    /\ UNCHANGED <<Params, selected, banned, candidate_order, metric, Search>>

NextPossible ==
    \/ Select
    \/ Deselect
    \/ Ban
    \/ IsSelectionPossible

SpecPossible == InitPossible /\ [][NextPossible]_vars

\* some set of unselected, unbanned candidates added to the selection meets
\* the target
SomeAdditionMeetsTarget ==
    \E S \in SUBSET SeqToSet(unselected_indices(Self)) :
        is_target_met([Self EXCEPT !.selected = @ \cup S], target)

(* C18: is_selection_possible(target) answers whether meeting the target is *)
(* possible: it returns true if and only if there is a set of currently     *)
(* unselected, unbanned candidates whose addition to the current selection  *)
(* makes is_target_met(target) true (for any mix of segwit and non-segwit   *)
(* candidates); it leaves self (selected, banned, order) unchanged.         *)
C18_SelectionPossible ==
    /\ [](op.name = "is_selection_possible" => ret.value = SomeAdditionMeetsTarget)
    /\ [][op'.name = "is_selection_possible" => SelfNext = Self]_vars

----------------------------------------------------------------------------
(* The branches a search can hold *)

\* the nodes of the search tree below cs that can be reached through nodes
\* whose bound is Some
RECURSIVE Reachable(_, _)
Reachable(m, cs) ==
    IF metric_bound(m, cs) = None THEN {}
    ELSE {cs} \cup (IF has_children(cs)
                    THEN Reachable(m, inclusion_child(cs)) \cup Reachable(m, exclusion_child(cs))
                    ELSE {})

QueueOf(i) == IF i = None THEN {} ELSE Unwrap(i).queue

(* C19: child enqueue rule.  A branch (the starting selector or any         *)
(* inclusion / exclusion child) is pushed onto the queue only if            *)
(* metric.bound of its selector is Some(b) and either no best exists or     *)
(* b < best at push time; hence no node whose bound is None, and no         *)
(* descendant reachable only through such a node, is ever popped, scored or *)
(* yielded.                                                                 *)
C19_EnqueueRule ==
    /\ [][\A b \in QueueOf(iter') \ QueueOf(iter) :
              /\ Some(b.lower_bound) \in bound_answers(metric, b.selector)
              /\ \/ Unwrap(iter').best = None
                 \/ RLt(b.lower_bound, Unwrap(Unwrap(iter').best))]_vars
    /\ [](metric # "Any" =>
              /\ \A b \in QueueOf(iter) : b.selector \in Reachable(metric, start_node)
              /\ hist.popped # None =>
                     Unwrap(hist.popped).selector \in Reachable(metric, start_node)
              /\ (out # None /\ IsSome(Unwrap(out))) =>
                     Unwrap(Unwrap(out)).selector \in Reachable(metric, start_node))

\* a round with a best at hand left out one child for its bound of None and
\* the other for a bound that is not below the best
C19_BothChildrenLeftOut ==
    /\ metric # "Any"
    /\ hist.expanded
    /\ has_children(Unwrap(hist.popped).selector)
    /\ IsSome(Unwrap(iter).best)
    /\ \E k \in {2, 3} :
           /\ hist.answers[k] = None
           /\ IsSome(hist.answers[5 - k])
           /\ ~RLt(Unwrap(hist.answers[5 - k]), Unwrap(Unwrap(iter).best))

----------------------------------------------------------------------------
(* C20: queue priority.  At every pop the popped branch has the smallest    *)
(* lower_bound among all queued branches, and whenever an inclusion branch  *)
(* and an exclusion branch are both queued with that same smallest          *)
(* lower_bound, an inclusion branch is popped before the exclusion branch.  *)
C20_QueuePriority ==
    [][(iter # None /\ iter' # iter) =>
          LET b == Unwrap(hist'.popped)
          IN  /\ b \in QueueOf(iter)
              /\ \A c \in QueueOf(iter) : RLe(b.lower_bound, c.lower_bound)
              /\ b.is_exclusion =>
                     \A c \in QueueOf(iter) : c.lower_bound = b.lower_bound => c.is_exclusion
      ]_vars

\* an inclusion branch was popped while an exclusion branch with the same
\* bound, pushed in an earlier round, stays queued
C20_InclusionBeforeExclusion ==
    /\ hist.popped # None
    /\ ~Unwrap(hist.popped).is_exclusion
    /\ \E e \in QueueOf(iter) :
           /\ e.is_exclusion
           /\ e.lower_bound = Unwrap(hist.popped).lower_bound
           /\ ~(/\ has_children(Unwrap(hist.popped).selector)
                /\ e.selector = exclusion_child(Unwrap(hist.popped).selector))

----------------------------------------------------------------------------
(* The children of an expanded node *)

\* the maximal run of consecutive unselected candidates of cs, from the
\* pivot on, that have the pivot's (value, weight)
PivotRun(cs) ==
    LET u == unselected_indices(cs)
        same(k) == /\ candidates[u[k]].value = candidates[u[1]].value
                   /\ candidates[u[k]].weight = candidates[u[1]].weight
    IN  { u[k] : k \in { m \in 1..Len(u) : \A j \in 1..m : same(j) } }

(* C21: branching step.  Expanding a node with pivot p (the first           *)
(* unselected, unbanned candidate in candidate_order) produces an inclusion *)
(* child whose selected set is the parent's plus {p} and whose banned set   *)
(* equals the parent's, and an exclusion child whose selected set equals    *)
(* the parent's and whose banned set is the parent's plus exactly the       *)
(* maximal run of consecutive unselected candidates starting at p that have *)
(* p's (value, weight); the parent and the sibling are not modified, and a  *)
(* node with no unselected candidate produces no children.                  *)
C21_BranchingStep ==
    [][(iter # None /\ iter' # iter) =>
          LET parent == Unwrap(hist'.popped).selector
              u == unselected_indices(parent)
              pushed == QueueOf(iter') \ QueueOf(iter)
          IN  /\ u = <<>> => pushed = {}
              /\ ~hist'.expanded => pushed = {}
              /\ \A b \in pushed :
                     /\ b.selector.candidate_order = parent.candidate_order
                     /\ ~b.is_exclusion =>
                            /\ b.selector.selected = parent.selected \cup {Head(u)}
                            /\ b.selector.banned = parent.banned
                     /\ b.is_exclusion =>
                            /\ b.selector.selected = parent.selected
                            /\ b.selector.banned = parent.banned \cup PivotRun(parent)
              /\ Cardinality({b \in pushed : b.is_exclusion}) <= 1
              /\ Cardinality({b \in pushed : ~b.is_exclusion}) <= 1
      ]_vars

\* both children of a node are queued, the exclusion child with two
\* candidates banned and a third, different one left unselected
C21_RunOfTwoBanned ==
    /\ hist.popped # None
    /\ hist.expanded
    /\ LET parent == Unwrap(hist.popped).selector
       IN  /\ has_children(parent)
           /\ Cardinality(PivotRun(parent)) = 2
           /\ Len(unselected_indices(parent)) = 3
           /\ \E i \in QueueOf(iter) : i.selector = inclusion_child(parent) /\ ~i.is_exclusion
           /\ \E e \in QueueOf(iter) :
                  /\ e.is_exclusion
                  /\ e.selector.selected = parent.selected
                  /\ e.selector.banned = parent.banned \cup PivotRun(parent)

----------------------------------------------------------------------------
(* C22: initialization.  bnb_solutions clones the starting selector,        *)
(* pre-sorts it by descending value_pwu iff the metric requires it, and     *)
(* enqueues it as a single inclusion branch iff metric.bound(start) is      *)
(* Some; when that bound is None the very first call to next() is the       *)
(* terminating None, zero rounds are counted, and run_bnb returns           *)
(* Err(NoBnbSolution{max_rounds, rounds: 0}).                               *)
C22_Initialization ==
    /\ [][(iter = None /\ iter' # None) =>
              LET start == IF requires_ordering_by_descending_value_pwu(metric)
                           THEN sort_candidates_by_descending_value_pwu(Self)
                           ELSE Self
                  it == Unwrap(iter')
              IN  /\ SelfNext = Self
                  /\ it.best = None
                  /\ \/ it.queue = {} /\ None \in bound_answers(metric, start)
                     \/ \E b \in bound_answers(metric, start) :
                            IsSome(b) /\ it.queue = {MkBranch(Unwrap(b), start, FALSE)}
                  /\ (metric # "Any" /\ IsSome(metric_bound(metric, start))) => it.queue # {}
         ]_vars
    /\ [][(iter # None /\ hist.popped = None /\ ~hist.terminated /\ QueueOf(iter) = {}) =>
              /\ out' = None
              /\ hist'.terminated
              /\ hist'.rounds = 0
         ]_vars
    /\ []((metric # "Any" /\ metric_bound(metric, start_node) = None) =>
              \A max_rounds \in 0..MaxRounds :
                  { run_bnb_result(res, max_rounds) : res \in run_bnb(metric, Self, max_rounds) }
                      = { ErrNoBnbSolution(max_rounds, 0) })

\* the iterator of a start without a bound, over candidates the metric would
\* have reordered, has returned its terminating None with no round counted
C22_NoBoundAtStart ==
    /\ metric = "LowestFee"
    /\ metric_bound(metric, start_node) = None
    /\ start_node.candidate_order # candidate_order
    /\ iter # None
    /\ hist.terminated
    /\ hist.rounds = 0
    /\ out = None

----------------------------------------------------------------------------
\* the sum of input_count over a set of candidates
InputCountOf(S) == SetSum(S, [i \in S |-> candidates[i].input_count])

(* C23: input_weight() equals 4 * varint_size(sum of input_count over       *)
(* selected) + the sum over selected of (weight, plus 1 if some selected    *)
(* candidate is segwit and this candidate is not) + (2 if some selected     *)
(* candidate is segwit, else 0); so selecting the first segwit candidate    *)
(* into a selection of k non-segwit candidates raises input_weight by that  *)
(* candidate's weight + 2 + k plus any varint widening, and the empty       *)
(* selection has input_weight 4.                                            *)
C23_InputWeight ==
    /\ [](LET segwit == {i \in selected : candidates[i].is_segwit}
              legacy == selected \ segwit
          IN  /\ input_weight(Self)
                   = 4 * varint_size(InputCountOf(selected))
                       + SetSum(selected, [i \in selected |-> candidates[i].weight])
                       + (IF segwit # {} THEN Cardinality(legacy) + 2 ELSE 0)
              /\ selected = {} => input_weight(Self) = 4)
    /\ [][(/\ op'.name = "select"
           /\ op'.arg \notin selected
           /\ candidates[op'.arg].is_segwit
           /\ \A i \in selected : ~candidates[i].is_segwit)
          => input_weight(SelfNext) - input_weight(Self)
               = candidates[op'.arg].weight + 2 + Cardinality(selected)
                   + 4 * (varint_size(InputCountOf(selected'))
                            - varint_size(InputCountOf(selected)))
         ]_vars

\* the first segwit candidate has joined one non-segwit candidate with no
\* widening of the varint: 100 + 100 + 1 + 2 + 4
C23_HeaderAndWitnessLength ==
    /\ op.name = "select"
    /\ Cardinality(selected) = 2
    /\ candidates[op.arg].is_segwit
    /\ \A i \in selected \ {op.arg} : ~candidates[i].is_segwit
    /\ \A i \in selected : candidates[i].weight = 100 /\ candidates[i].input_count = 1
    /\ input_weight(Self) = 207

----------------------------------------------------------------------------
(* C24: change threshold.  With e = excess(target, Drain{weights:           *)
(* policy.drain_weights, value: 0}), drain_value(target, policy) returns    *)
(* Some(e) iff e > policy.min_value (strictly; e = min_value gives None)    *)
(* and None otherwise; drain(target, policy) is then                        *)
(* Drain{policy.drain_weights, e} or Drain::NONE respectively, and whenever *)
(* it is not NONE, excess(target, drain) = 0: the change absorbs exactly    *)
(* the excess.                                                              *)
C24_ChangeThreshold ==
    LET e == excess(Self, target, MkDrain(change_policy.drain_weights, 0))
        dv == drain_value(Self, target, change_policy)
        d == drain(Self, target, change_policy)
    IN  /\ e > change_policy.min_value =>
               /\ dv = Some(e)
               /\ d = MkDrain(change_policy.drain_weights, e)
        /\ e <= change_policy.min_value =>
               /\ dv = None
               /\ d = DrainNONE
        /\ d # DrainNONE => excess(Self, target, d) = 0

\* a selection whose excess with the change output's weight is exactly a
\* positive min_value
C24_AtThreshold ==
    /\ selected # {}
    /\ change_policy.min_value > 0
    /\ excess(Self, target, MkDrain(change_policy.drain_weights, 0)) = change_policy.min_value

----------------------------------------------------------------------------
(* metrics/lowest_fee.rs, LowestFee::bound called on a selector: the      *)
(* candidates are sorted by descending value_pwu as BnbIter::new leaves    *)
(* them, and the selector is any node of the search tree below that.       *)

BoundKinds ==
    { [value |-> 1000, weight |-> 100, input_count |-> 1, is_segwit |-> FALSE],
      [value |-> 101,  weight |-> 100, input_count |-> 1, is_segwit |-> TRUE],
      [value |-> 101,  weight |-> 100, input_count |-> 1, is_segwit |-> FALSE] }

BoundTargets ==
    { MkTarget(4, None, 848),
      MkTarget(4, None, 861),
      MkTarget(4, None, 2000) }

InitBound ==
    /\ candidates \in UNION { [0..(n - 1) -> BoundKinds] : n \in 0..MaxBnbN }
    /\ target \in BoundTargets
    /\ change_policy = DefaultPolicy
    /\ long_term_feerate = 4
    /\ selected = {}
    /\ banned = {}
    /\ candidate_order =
           sort_candidates_by_descending_value_pwu(
               [selected |-> {}, banned |-> {},
                candidate_order |-> [k \in 1..Cardinality(DOMAIN candidates) |-> k - 1]]
           ).candidate_order
    /\ metric = "LowestFee"
    /\ op = MkOp("new", -1)
    /\ ret = Unit
    /\ iter = None
    /\ out = None
    /\ hist = NoHist

\* LowestFee { target, long_term_feerate, change_policy }.bound(&cs)
Bound ==
    /\ op' = MkOp("bound", -1)
    /\ ret' = OptionScore(LowestFee_bound(Self))
    /\ UNCHANGED <<Params, selected, banned, candidate_order, metric, Search>>

NextBound ==
    \/ Select
    \/ Ban
    \/ Bound

SpecBound == InitBound /\ [][NextBound]_vars

(* C25: the LowestFee infeasibility verdict is sound: whenever bound(N)    *)
(* returns None, no selection obtained from N by selecting further         *)
(* unselected, unbanned candidates has a LowestFee score, that is, none    *)
(* of them meets the target.                                               *)
C25_InfeasibilitySound ==
    (op.name = "bound" /\ ret = OptionScore(None)) =>
        \A d \in Descendants(Self) : ~is_target_met(d, target)

----------------------------------------------------------------------------
(* metrics/waste.rs: Waste {target, long_term_feerate, change_policy}, the *)
(* three fields being the variables of those names; its scores are f32,    *)
(* kept as exact rationals.                                                *)

\* CoinSelector::input_waste
input_waste(cs, feerate, lt_feerate) ==
    Rat(f32_of(input_weight(cs)) * (feerate - lt_feerate), 4)

\* the same with the drain's waste taken from its weights alone
waste_without_varint(cs, t, lt_feerate, drn, excess_discount) ==
    IF drn = DrainNONE
    THEN RAdd(input_waste(cs, t.fee.rate, lt_feerate),
              RInt(Max2(excess(cs, t, drn), 0)))
    ELSE RAdd(input_waste(cs, t.fee.rate, lt_feerate),
              Rat(drn.weights.output_weight * t.fee.rate
                    + drn.weights.spend_weight * lt_feerate, 4))

\* CoinSelector::waste; excess_discount is clamped to 0.0..=1.0
waste(cs, t, lt_feerate, drn, excess_discount) ==
    IF drn = DrainNONE
    THEN LET excess_waste == RInt(Max2(excess(cs, t, drn), 0))
             discount == IF RLt(excess_discount, RInt(0)) THEN RInt(0)
                         ELSE IF RLt(RInt(1), excess_discount) THEN RInt(1)
                         ELSE excess_discount
         IN  RAdd(input_waste(cs, t.fee.rate, lt_feerate), RMul(excess_waste, discount))
    ELSE RAdd(input_waste(cs, t.fee.rate, lt_feerate),
              drain_waste(drn.weights, t.fee.rate, lt_feerate, t.outputs.n_outputs))

\* Waste::score
Waste_score(cs) ==
    LET d == drain(cs, target, change_policy)
    IN  IF ~is_target_met_with_drain(cs, target, d) THEN None
        ELSE Some(waste(cs, target, long_term_feerate, d, RInt(1)))

WasteKinds ==
    { [value |-> 50000, weight |-> 100, input_count |-> 1, is_segwit |-> TRUE],
      [value |-> 1000,  weight |-> 100, input_count |-> 1, is_segwit |-> TRUE],
      [value |-> 1000,  weight |-> 100, input_count |-> 1, is_segwit |-> FALSE] }

\* one output of no script, and 252 outputs of 124 wu each: one more output
\* takes the output count's varint from 1 byte to 3
WasteTargets ==
    { [fee |-> [rate |-> r, replace |-> None],
       outputs |-> [value_sum |-> v, weight_sum |-> o[2], n_outputs |-> o[1]]]
      : r \in {4, 8}, v \in {848, 10000}, o \in {<<1, 0>>, <<252, 31248>>} }

InitWaste ==
    /\ candidates \in UNION { [0..(n - 1) -> WasteKinds] : n \in 0..MaxN }
    /\ target \in WasteTargets
    /\ change_policy \in ChangePolicies
    /\ long_term_feerate \in {0, 4, 8}
    /\ selected = {}
    /\ banned = {}
    /\ candidate_order = [k \in 1..Cardinality(DOMAIN candidates) |-> k - 1]
    /\ metric = "Waste"
    /\ op = MkOp("new", -1)
    /\ ret = Unit
    /\ iter = None
    /\ out = None
    /\ hist = NoHist

\* Waste { target, long_term_feerate, change_policy }.score(&cs)
WasteScore ==
    /\ op' = MkOp("score", -1)
    /\ ret' = OptionScore(Waste_score(Self))
    /\ UNCHANGED <<Params, selected, banned, candidate_order, metric, Search>>

NextWaste ==
    \/ Select
    \/ Deselect
    \/ WasteScore

SpecWaste == InitWaste /\ [][NextWaste]_vars

\* the weight the drain's outputs add to the output count's varint
extra_varint_weight(t, d) ==
    (varint_size(t.outputs.n_outputs + d.weights.n_outputs)
        - varint_size(t.outputs.n_outputs)) * 4

\* the waste the statement gives, with w the weight charged for the change
\* output at the target feerate
WasteFormula(d, w) ==
    RAdd(Rat(input_weight(Self) * (target.fee.rate - long_term_feerate), 4),
         IF d # DrainNONE
         THEN Rat(w * target.fee.rate + d.weights.spend_weight * long_term_feerate, 4)
         ELSE RInt(Max2(excess(Self, target, DrainNONE), 0)))

----------------------------------------------------------------------------
\* the number of nodes of the full binary tree below cs, cs included
SubtreeSize(cs) == 2^(Cardinality(free(cs)) + 1) - 1

\* the rounds the queued branches can still take
Work(i) == SetSum(QueueOf(i), [b \in QueueOf(i) |-> SubtreeSize(b.selector)])

(* C27: BnB termination.  For a candidate list of size N, any starting      *)
(* selector and any metric, admissible or not, repeated next() calls reach *)
(* the terminating None after at most 2^(N+1) - 1 rounds: every round pops *)
(* a branch and pushes only children that enlarge selected-union-banned,   *)
(* so the rounds made plus the rounds the queue can still take never       *)
(* exceed that number and every round lowers the latter.                   *)
C27_Termination ==
    /\ [](hist.rounds <= 2^(N + 1) - 1)
    /\ []((iter # None /\ ~hist.terminated) =>
              hist.rounds + Work(iter) <= 2^(N + 1) - 1)
    /\ [][(iter # None /\ iter' # iter) =>
              /\ Work(iter') < Work(iter)
              /\ \A b \in QueueOf(iter') \ QueueOf(iter) :
                     /\ hist'.popped # None
                     /\ Cardinality(b.selector.selected \cup b.selector.banned)
                          > Cardinality(Unwrap(hist'.popped).selector.selected
                                          \cup Unwrap(hist'.popped).selector.banned)]_vars

\* a run that took every one of the 2^(N+1) - 1 rounds before the
\* terminating None, on two candidates
C27_EveryNodeVisited ==
    /\ hist.terminated
    /\ N = 2
    /\ hist.rounds = 2^(N + 1) - 1

----------------------------------------------------------------------------
\* the best score the iterator holds
BestOf(i) == IF i = None THEN None ELSE Unwrap(i).best

(* C28: BnB termination is stable.  Once next() has returned the            *)
(* terminating None, whether on an empty queue or because best < the       *)
(* popped lower_bound with branches still queued, every later next() also  *)
(* returns None: nothing is emitted after termination, best never changes  *)
(* again and nothing is pushed.                                            *)
C28_TerminationStable ==
    /\ [](hist.terminated => out = None)
    /\ [][hist.terminated =>
              /\ hist'.terminated
              /\ out' = None
              /\ BestOf(iter') = BestOf(iter)
              /\ QueueOf(iter') \subseteq QueueOf(iter)
              /\ hist'.last_emitted = hist.last_emitted
              /\ hist'.yielded = hist.yielded
              /\ hist'.rounds = hist.rounds]_vars

\* a next() made after the search had stopped on a bound with branches still
\* queued: it popped one of them and some are left
C28_CalledAfterBoundStop ==
    /\ hist.after_end
    /\ hist.popped # None
    /\ QueueOf(iter) # {}
    /\ IsSome(BestOf(iter))

----------------------------------------------------------------------------
\* the selector sel keeps what start had selected and banned, and selects
\* nothing that start had banned without having selected it
Extends(sel, start_selected, start_banned) ==
    /\ start_selected \subseteq sel.selected
    /\ start_banned \subseteq sel.banned
    /\ sel.selected \cap (start_banned \ start_selected) = {}

(* C29: BnB only extends the starting selector.  Every selector yielded by  *)
(* bnb_solutions, and so self after a successful run_bnb, has a selected   *)
(* set and a banned set that are supersets of the starting ones, selects   *)
(* no candidate that was banned and unselected at the start, and carries   *)
(* the score metric.score gives for it.                                    *)
C29_OnlyExtends ==
    /\ []((out # None /\ IsSome(Unwrap(out))) =>
              LET y == Unwrap(Unwrap(out))
              IN  /\ Extends(y.selector, selected, banned)
                  /\ Some(y.score) \in score_answers(metric, y.selector)
                  /\ Some(y.score) = hist.answers[1]
                  /\ hist.popped # None
                  /\ y.selector = Unwrap(hist.popped).selector)
    /\ [][(op'.name = "run_bnb" /\ ret'.kind = "ok") =>
              /\ Extends(Self', selected, banned)
              /\ Some(ret'.value) = metric_score(metric', Self')]_vars

\* a selector yielded in a search whose start had one candidate selected or
\* banned, with a candidate selected on top of it
C29_YieldedBelowStart ==
    /\ out # None
    /\ IsSome(Unwrap(out))
    /\ selected \cup banned # {}
    /\ Unwrap(Unwrap(out)).selector.selected \ selected # {}

----------------------------------------------------------------------------
(* C30: each selection is scored at most once.  Within one bnb_solutions    *)
(* run only inclusion branches (the starting selector and include-pivot    *)
(* children) are scored, exclusion branches are never scored or yielded,   *)
(* no two scored branches have the same selected set, and so no selected   *)
(* set is yielded twice.                                                   *)
C30_ScoredOnce ==
    [][(iter # None /\ iter' # iter) =>
           LET branch == Unwrap(hist'.popped)
           IN  /\ hist'.was_scored => ~branch.is_exclusion
               /\ branch.is_exclusion => (out' = None \/ Unwrap(out') = None)
               /\ hist'.was_scored => branch.selector.selected \notin hist.scored
               /\ (out' # None /\ IsSome(Unwrap(out'))) =>
                      /\ hist'.was_scored
                      /\ branch.selector.selected \notin hist.yielded
               /\ (~branch.is_exclusion /\ out' # None) => hist'.was_scored
               /\ hist'.yielded \subseteq hist'.scored]_vars

\* an exclusion branch has been popped and expanded unscored after its
\* parent's selected set, which it shares, had been scored and yielded
C30_ExclusionAfterYield ==
    /\ hist.popped # None
    /\ Unwrap(hist.popped).is_exclusion
    /\ hist.expanded
    /\ ~hist.was_scored
    /\ Unwrap(hist.popped).selector.selected \in hist.yielded
    /\ Cardinality(hist.scored) >= 2

====
